---- MODULE Spec2Model ----
(***************************************************************************)
(* GHCS - Green Hydrogen Credit System.                                    *)
(*                                                                         *)
(* A model of the Flask application "working model/proto_v3_migrated.py"   *)
(* running on the simulated ledger of services/blockchain_service.py       *)
(* (BlockchainAdapter in simulated mode over SimulatedBlockchain).         *)
(*                                                                         *)
(* The web server handles requests on threads and neither the application  *)
(* nor the ledger takes a lock, so a request that reaches the ledger is    *)
(* modelled as a thread that runs its handler statement by statement: the  *)
(* balance check, SimulatedBlockchain.add_transaction, then mine_block and *)
(* the three effects of create_block (copy the pool into a block, reset    *)
(* the pool, append the block), and at last the response.                  *)
(***************************************************************************)
EXTENDS Integers, Sequences, FiniteSets, TLC

\* ------------------------------------------------------------------ bounds

\* The number of requests the server is sent in one exploration: two, so
\* that two requests can run concurrently or one after the other.
MaxRequests == 2

\* The request threads of the web server.
Threads == {1, 2}

\* The length of an error message, counted in its words and phrases.
MaxMessageLen == 2

\* The greatest max_retries an error handler is made with.
MaxRetries == 2

\* The number of times the process is stopped and started again.
MaxRestarts == 1

\* ------------------------------------------------------------------ names

GovtAdmin == "GovtAdmin"
StatePollGujarat == "StatePollGujarat"
SomnathProducers == "SomnathProducers"
AmmoniaFactory == "Ammonia Factory"
CitizenOne == "CitizenOne"

\* The sender BlockchainAdapter.issue_credits gives an issuance transaction.
SystemSender == "system"

\* The amount of the bootstrap issuance of setup_initial_users.
InitialCredits == 1000

\* proof of the genesis block (SimulatedBlockchain.__init__).
GenesisProof == 100

\* previous_hash of the genesis block: '0x' + '0' * 64.
GenesisPreviousHash == "0x0000000000000000000000000000000000000000000000000000000000000000"

\* request.form['amount']: text that int() converts to this value, or text
\* on which it raises ValueError.
IntText(value) == [is_int |-> TRUE, value |-> value]
NotIntText == [is_int |-> FALSE, value |-> 0]

\* The /buy-credit forms sent (both fields are free text): all of the
\* bootstrap balance or a negative amount from the producer, the same
\* amount from the buying factory itself, an amount that is no number, and
\* the issuance sender as seller with the negative of the bootstrap amount.
BuyForms ==
    {[seller |-> SomnathProducers, amount |-> IntText(InitialCredits)],
     [seller |-> SomnathProducers, amount |-> IntText(-5)],
     [seller |-> AmmoniaFactory, amount |-> IntText(InitialCredits)],
     [seller |-> SomnathProducers, amount |-> NotIntText],
     [seller |-> SystemSender, amount |-> IntText(-InitialCredits)]}

\* The /issue-credit forms sent.
IssueForms == {IntText(InitialCredits), IntText(-5), NotIntText}

\* The /register forms sent: a name that is taken, a new name as Citizen,
\* the new name as Producer with a capacity that is no number, and the
\* name of the issuance sender as Factory.
RegisterForms ==
    {[name |-> CitizenOne, type |-> "Government",
      state_verification_no |-> "N/A", capacity |-> IntText(0),
      industry_type |-> "N/A", industry_consumption |-> IntText(0)],
     [name |-> "NewCitizen", type |-> "Citizen",
      state_verification_no |-> "N/A", capacity |-> IntText(0),
      industry_type |-> "N/A", industry_consumption |-> IntText(0)],
     [name |-> "NewCitizen", type |-> "Producer",
      state_verification_no |-> "SVN-GJ-002", capacity |-> NotIntText,
      industry_type |-> "N/A", industry_consumption |-> IntText(0)],
     [name |-> SystemSender, type |-> "Factory",
      state_verification_no |-> "N/A", capacity |-> IntText(0),
      industry_type |-> "Ammonia", industry_consumption |-> IntText(20000)]}

\* request.form['quota_amount'] of the two quota routes.
QuotaInputs == {500}

\* request.form['username'] of /freeze-account.
FreezeInputs == {SomnathProducers, AmmoniaFactory}

\* No value: a thread local not in use, a missing dictionary entry.
None == "None"

\* ------------------------------------------------------------------ state

VARIABLES
    users,                \* APP_DATA['users']: name -> [role, frozen, attributes]
    quotas,               \* APP_DATA['quotas']: name -> quota
    pending_issuances,    \* APP_DATA['pending_issuances']: id -> request
    issuance_counter,     \* APP_DATA['issuance_counter']
    chain,                \* SimulatedBlockchain.chain
    current_transactions, \* SimulatedBlockchain.current_transactions
    clock,                \* time(): the number of timestamps taken so far
    tx_counter,           \* the transaction ids handed out so far
    th,                   \* the request each thread is handling
    requests,             \* the requests received so far
    boots,                \* the times the process was started again
    username_to_address,  \* AccountMapper.username_to_address
    address_to_username,  \* AccountMapper.address_to_username
    mapper_call,          \* the last call of the AccountMapper and its result
    retry,                \* a call of BlockchainErrorHandler.execute_with_retry
    classified,           \* a call of _is_retryable_error: error and result
    ai_service,           \* AIService: _model, _initialized, its environment
    analysis              \* the last call of get_risk_analysis and its result

\* The collaborators of the application that keep state of their own: the
\* account mapper, the error handler and the AI service. No route of the
\* application in simulated mode changes them.
service_vars == <<username_to_address, address_to_username, mapper_call,
                  retry, classified, ai_service, analysis>>

\* The application and its ledger.
app_vars == <<users, quotas, pending_issuances, issuance_counter, chain,
              current_transactions, clock, tx_counter, th, requests, boots>>

vars == <<app_vars, service_vars>>

\* ------------------------------------------------------------------ hashing

\* hashlib.sha256 of a canonical JSON string, taken as collision-free: two
\* digests are equal exactly when the serialised contents are.
Sha256(content) == [sha256 |-> content]

\* SimulatedBlockchain._generate_block_hash: the digest of the five hashed
\* fields of a block.
GenerateBlockHash(block) ==
    Sha256([index |-> block.index,
            timestamp |-> block.timestamp,
            transactions |-> block.transactions,
            proof |-> block.proof,
            previous_hash |-> block.previous_hash])

\* SimulatedBlockchain._hash_transaction: the digest of the transaction
\* dictionary.
HashTransaction(tx) == Sha256(tx)

\* SimulatedBlockchain.hash: the digest of the whole block dictionary, its
\* stored 'hash' entry included.
Hash(block) == Sha256(block)

\* SimulatedBlockchain.proof_of_work: the least proof p such that
\* sha256(f'{last_proof}{p}') starts with "0000", for the proofs a chain
\* that starts at GenesisProof runs through.
ProofOfWork(last_proof) ==
    CASE last_proof = 100 -> 35293
      [] last_proof = 35293 -> 35089
      [] last_proof = 35089 -> 119678
      [] last_proof = 119678 -> 146502
      [] last_proof = 146502 -> 43538
      [] last_proof = 43538 -> 85724
      [] last_proof = 85724 -> 51178
      [] last_proof = 51178 -> 71730

\* ------------------------------------------------------------------ ledger reads

\* SimulatedBlockchain.get_last_block
GetLastBlock == IF Len(chain) > 0 THEN chain[Len(chain)] ELSE None

\* The inner loop of get_balance over one block's transactions.
RECURSIVE BalanceOfTxs(_, _)
BalanceOfTxs(txs, account_name) ==
    IF txs = <<>> THEN 0
    ELSE LET tx == Head(txs)
         IN  (IF tx.recipient = account_name THEN tx.amount ELSE 0)
             - (IF tx.sender = account_name THEN tx.amount ELSE 0)
             + BalanceOfTxs(Tail(txs), account_name)

\* The outer loop of get_balance over the blocks of a chain.
RECURSIVE BalanceOfChain(_, _)
BalanceOfChain(blocks, account_name) ==
    IF blocks = <<>> THEN 0
    ELSE BalanceOfTxs(Head(blocks).transactions, account_name)
         + BalanceOfChain(Tail(blocks), account_name)

\* SimulatedBlockchain.get_balance
GetBalance(account_name) == BalanceOfChain(chain, account_name)

\* reversed(sequence)
Reverse(seq) == [i \in 1..Len(seq) |-> seq[Len(seq) + 1 - i]]

\* The order in which get_user_transactions visits the transactions of the
\* blocks it is given (the chain reversed): block after block, the
\* transactions of each block from the last to the first.
RECURSIVE HistoryEntries(_)
HistoryEntries(blocks) ==
    IF blocks = <<>> THEN <<>>
    ELSE LET block == Head(blocks)
             txs == Reverse(block.transactions)
         IN  [i \in 1..Len(txs) |-> [tx |-> txs[i], block_index |-> block.index]]
             \o HistoryEntries(Tail(blocks))

\* tx_with_context: the entry get_user_transactions returns for a
\* transaction (the gas fields and the ISO timestamp are left out as in
\* NewTransaction; transaction_hash is the entry of the transaction, or
\* its digest when it has none).
TxWithContext(entry) ==
    [sender |-> entry.tx.sender,
     recipient |-> entry.tx.recipient,
     amount |-> entry.tx.amount,
     details |-> entry.tx.details,
     transaction_hash |->
         IF "transaction_hash" \in DOMAIN entry.tx
         THEN entry.tx.transaction_hash
         ELSE HashTransaction(entry.tx),
     block_number |-> entry.block_index,
     block_index |-> entry.block_index,
     status |-> "confirmed",
     confirmations |-> Len(chain) - entry.block_index + 1]

\* The loops of get_user_transactions: a matching transaction is appended,
\* and after each transaction visited the list is returned once it has
\* limit entries or more.
RECURSIVE CollectTransactions(_, _, _, _)
CollectTransactions(entries, account_name, limit, transactions) ==
    IF entries = <<>> THEN transactions
    ELSE LET entry == Head(entries)
             collected ==
                 IF entry.tx.recipient = account_name
                    \/ entry.tx.sender = account_name
                 THEN Append(transactions, TxWithContext(entry))
                 ELSE transactions
         IN  IF Len(collected) >= limit THEN collected
             ELSE CollectTransactions(Tail(entries), account_name, limit,
                                      collected)

\* SimulatedBlockchain.get_user_transactions
GetUserTransactions(account_name, limit) ==
    CollectTransactions(HistoryEntries(Reverse(chain)), account_name, limit,
                        <<>>)

\* The limits get_user_transactions is called with: none, one, two, and the
\* 10 of the dashboard.
HistoryLimits == {0, 1, 2, 10}

\* sum(len(block['transactions']) for block in self.chain)
RECURSIVE TotalTransactions(_)
TotalTransactions(blocks) ==
    IF blocks = <<>> THEN 0
    ELSE Len(Head(blocks).transactions) + TotalTransactions(Tail(blocks))

\* get_chain_info that reports no pending transactions.
GetChainInfoNoPending ==
    [network |-> "ethereum-mainnet",
     chain_id |-> 1,
     latest_block |-> IF Len(chain) > 0 THEN GetLastBlock.index ELSE 0,
     latest_block_hash |->
         IF Len(chain) > 0 THEN GetLastBlock.hash ELSE Sha256("0x0"),
     latest_block_timestamp |->
         IF Len(chain) > 0 THEN GetLastBlock.timestamp ELSE 0,
     total_transactions |-> TotalTransactions(chain),
     pending_transactions |-> 0,
     gas_price |-> "20 Gwei",
     backend |-> "ethereum",
     sync_status |-> "synced",
     peer_count |-> 25,
     length |-> Len(chain)]

\* SimulatedBlockchain.get_chain_info
GetChainInfo ==
    [network |-> "ethereum-mainnet",
     chain_id |-> 1,
     latest_block |-> IF Len(chain) > 0 THEN GetLastBlock.index ELSE 0,
     latest_block_hash |->
         IF Len(chain) > 0 THEN GetLastBlock.hash ELSE Sha256("0x0"),
     latest_block_timestamp |->
         IF Len(chain) > 0 THEN GetLastBlock.timestamp ELSE 0,
     total_transactions |-> TotalTransactions(chain),
     pending_transactions |-> Len(current_transactions),
     gas_price |-> "20 Gwei",
     backend |-> "ethereum",
     sync_status |-> "synced",
     peer_count |-> 25,
     length |-> Len(chain)]

\* ------------------------------------------------------------------ ledger writes

\* The transaction dictionary SimulatedBlockchain.add_transaction builds.
\* transaction_id is a digest of the time and a random number, unique per
\* call: here the number of the call. (gas_price and gas_limit are the same
\* in every transaction and are left out, with the ISO timestamp.)
\* tx['transaction_hash'] is the digest of the dictionary without it.
NewTransaction(sender, recipient, amount, details) ==
    LET tx == [sender |-> sender,
               recipient |-> recipient,
               amount |-> amount,
               details |-> details,
               transaction_id |-> tx_counter + 1,
               nonce |-> Len(current_transactions) + 1]
    IN  [sender |-> sender,
         recipient |-> recipient,
         amount |-> amount,
         details |-> details,
         transaction_id |-> tx_counter + 1,
         nonce |-> Len(current_transactions) + 1,
         transaction_hash |-> HashTransaction(tx)]

\* The details text of a transaction: "Credit purchase", "Initial credit
\* allocation", or f"Certified Issuance ID: {issuance_id}" with the number n
\* of the id "ISSUE-n" (0 where the text names no issuance).
Details(text, issuance_number) ==
    [text |-> text, issuance |-> issuance_number]

\* The block dictionary create_block builds, with its 'hash' entry.
NewBlock(index, timestamp, transactions, proof, previous_hash) ==
    LET block == [index |-> index,
                  timestamp |-> timestamp,
                  transactions |-> transactions,
                  proof |-> proof,
                  previous_hash |-> previous_hash]
    IN  [index |-> index,
         timestamp |-> timestamp,
         transactions |-> transactions,
         proof |-> proof,
         previous_hash |-> previous_hash,
         hash |-> GenerateBlockHash(block)]

\* The loop of create_block over the transactions of the block it has
\* hashed: a transaction without 'transaction_hash' is given its digest
\* and the index of the block as 'block_number'.
AddTransactionHash(tx, index) ==
    IF "transaction_hash" \in DOMAIN tx THEN tx
    ELSE [key \in DOMAIN tx \cup {"transaction_hash", "block_number"} |->
             IF key = "transaction_hash" THEN HashTransaction(tx)
             ELSE IF key = "block_number" THEN index
             ELSE tx[key]]

AddTransactionHashes(transactions, index) ==
    [i \in 1..Len(transactions) |->
        AddTransactionHash(transactions[i], index)]

\* The block create_block appends and returns: the block dictionary it
\* built and hashed, its transactions after the loop.
CreatedBlock(block) ==
    [block EXCEPT
        !.transactions = AddTransactionHashes(block.transactions,
                                              block.index)]

\* ------------------------------------------------------------------ threads

\* A thread that handles no request.
Idle ==
    [pc |-> "idle", route |-> None, user |-> None, sender |-> None,
     recipient |-> None, amount |-> 0, details |-> None, issuance_id |-> 0,
     seen_balance |-> 0, transaction_id |-> 0, block_index |-> 0,
     last_block |-> None, pool_at_call |-> <<>>, block |-> None,
     flash |-> None, info |-> None, seen_chain |-> <<>>, seen_pool |-> <<>>,
     target |-> None]

\* The statements of a request that is on its way to mining a block.
MiningPcs == {"add_transaction", "mine_block", "create_block", "reset_pool",
              "append_block"}

\* A request arrives: the server hands it to a thread of its own (threads
\* are interchangeable, so to the first one that is free).
Receive ==
    /\ requests < MaxRequests
    /\ requests' = requests + 1

Accepts(t) ==
    /\ th[t].pc = "idle"
    /\ \A u \in Threads : u < t => th[u].pc # "idle"

\* session['role'], set at login from the user's role.
SessionRole(user) == users[user].role

\* role_required: the decorated route runs only for these roles.
RoleRequired(user, required_roles) ==
    /\ user \in DOMAIN users
    /\ SessionRole(user) \in required_roles

\* ------------------------------------------------------------------ /register

\* new_user: the account register builds from the form (the password hash
\* is left out).
NewUser(form) ==
    [role |-> form.type,
     frozen |-> FALSE,
     attributes |->
         IF form.type = "Producer"
         THEN <<<<"state_verification_no", form.state_verification_no>>,
                <<"capacity", form.capacity.value>>>>
         ELSE IF form.type = "Factory"
         THEN <<<<"industry_type", form.industry_type>>,
                <<"industry_consumption", form.industry_consumption.value>>>>
         ELSE <<>>]

\* register without its test for a name that is taken.
RegisterCheckNoDuplicate(form) ==
    IF \/ form.type = "Producer" /\ ~form.capacity.is_int
       \/ form.type = "Factory" /\ ~form.industry_consumption.is_int
    THEN "ValueError"
    ELSE "Registration successful!"

\* register up to the insertion: the name is looked up, and int() converts
\* the capacity of a Producer and the consumption of a Factory (its
\* ValueError is not caught: the request fails).
RegisterCheck(form) ==
    IF form.name \in DOMAIN users THEN "Username already exists."
    ELSE IF \/ form.type = "Producer" /\ ~form.capacity.is_int
            \/ form.type = "Factory" /\ ~form.industry_consumption.is_int
    THEN "ValueError"
    ELSE "Registration successful!"

\* register (POST): APP_DATA['users'][name] = new_user unless the request
\* was turned away, then the redirect.
Register(t, form) ==
    /\ Receive
    /\ Accepts(t)
    /\ LET verdict == RegisterCheck(form)
       IN  /\ users' =
                 IF verdict = "Registration successful!"
                 THEN [name \in DOMAIN users \cup {form.name} |->
                          IF name = form.name THEN NewUser(form)
                          ELSE users[name]]
                 ELSE users
           /\ th' = [th EXCEPT ![t] =
                        [Idle EXCEPT !.pc = "respond",
                                     !.route = "register",
                                     !.target = form.name,
                                     !.flash = verdict]]
    /\ UNCHANGED service_vars
    /\ UNCHANGED <<quotas, pending_issuances, issuance_counter, chain,
                   current_transactions, clock, tx_counter, boots>>

\* ------------------------------------------------------------------ /buy-credit

\* buy_credit without its check of the seller's balance.
BuyCreditCheckNoBalance(buyer_name, seller_name, form) ==
    IF ~form.is_int THEN "Invalid amount."
    ELSE IF buyer_name \in DOMAIN quotas /\ form.value > quotas[buyer_name]
         THEN "Purchase failed. Exceeds quota."
    ELSE "ok"

\* buy_credit up to the call of blockchain_adapter.add_transaction: the
\* conversion of the amount, the quota check and the balance check.
BuyCreditCheck(buyer_name, seller_name, form) ==
    IF ~form.is_int THEN "Invalid amount."
    ELSE IF buyer_name \in DOMAIN quotas /\ form.value > quotas[buyer_name]
         THEN "Purchase failed. Exceeds quota."
    ELSE IF GetBalance(seller_name) < form.value
         THEN "Purchase failed. Seller has insufficient credits."
    ELSE "ok"

BuyCredit(t, buyer_name, seller_name, form) ==
    /\ Receive
    /\ Accepts(t)
    /\ RoleRequired(buyer_name, {"Factory"})
    /\ LET verdict == BuyCreditCheck(buyer_name, seller_name, form)
           request == [Idle EXCEPT !.route = "buy_credit",
                                   !.user = buyer_name,
                                   !.sender = seller_name,
                                   !.recipient = buyer_name,
                                   !.amount = form.value,
                                   !.seen_balance = GetBalance(seller_name),
                                   !.details = Details("Credit purchase", 0)]
       IN  IF verdict = "ok"
           THEN th' = [th EXCEPT ![t] =
                         [request EXCEPT !.pc = "add_transaction"]]
           ELSE IF form.is_int
           THEN th' = [th EXCEPT ![t] =
                         [request EXCEPT !.pc = "respond",
                                         !.flash = verdict]]
           ELSE th' = [th EXCEPT ![t] =
                         [Idle EXCEPT !.pc = "respond",
                                      !.route = "buy_credit",
                                      !.user = buyer_name,
                                      !.flash = verdict]]
    /\ UNCHANGED service_vars
    /\ UNCHANGED <<users, quotas, pending_issuances, issuance_counter, chain,
                   current_transactions, clock, tx_counter, boots>>

\* The redirect that ends a rejected request.
Respond(t) ==
    /\ th[t].pc = "respond"
    /\ th' = [th EXCEPT ![t] = Idle]
    /\ UNCHANGED service_vars
    /\ UNCHANGED <<users, quotas, pending_issuances, issuance_counter, chain,
                   current_transactions, clock, tx_counter, requests, boots>>

\* ------------------------------------------------------------------ the ledger, statement by statement

\* SimulatedBlockchain.add_transaction, called by BlockchainAdapter's
\* add_transaction and issue_credits: the transaction joins the pool and the
\* index of the block to come is returned.
SimAddTransaction(t) ==
    /\ th[t].pc = "add_transaction"
    /\ LET tx == NewTransaction(th[t].sender, th[t].recipient, th[t].amount,
                                th[t].details)
       IN  /\ current_transactions' = Append(current_transactions, tx)
           /\ tx_counter' = tx_counter + 1
           /\ th' = [th EXCEPT ![t].pc = "mine_block",
                               ![t].transaction_id = tx.transaction_id,
                               ![t].block_index = GetLastBlock.index + 1]
    /\ UNCHANGED service_vars
    /\ UNCHANGED <<users, quotas, pending_issuances, issuance_counter, chain,
                   clock, requests, boots>>

\* SimulatedBlockchain.mine_block up to its call of create_block: the last
\* block is read and the proof is searched from its proof. (pool_at_call
\* remembers, until create_block copies the pool, the pool the call found;
\* the code does not read it.)
MineBlock(t) ==
    /\ th[t].pc = "mine_block"
    /\ th' = [th EXCEPT ![t].pc = "create_block",
                        ![t].last_block = GetLastBlock,
                        ![t].pool_at_call = current_transactions]
    /\ UNCHANGED service_vars
    /\ UNCHANGED <<users, quotas, pending_issuances, issuance_counter, chain,
                   current_transactions, clock, tx_counter, requests, boots>>

\* create_block, first part: the block dictionary is built from the length
\* of the chain, the time and a copy of the pool, and hashed; then the loop
\* over its transactions, which are the dictionaries the pool holds too.
CreateBlockBuild(t) ==
    /\ th[t].pc = "create_block"
    /\ LET block == NewBlock(Len(chain) + 1, clock, current_transactions,
                             ProofOfWork(th[t].last_block.proof),
                             Hash(th[t].last_block))
       IN  /\ th' = [th EXCEPT ![t].pc = "reset_pool",
                               ![t].pool_at_call = <<>>,
                               ![t].block = CreatedBlock(block)]
           /\ current_transactions' = CreatedBlock(block).transactions
    /\ clock' = clock + 1
    /\ UNCHANGED service_vars
    /\ UNCHANGED <<users, quotas, pending_issuances, issuance_counter, chain,
                   tx_counter, requests, boots>>

\* create_block, second part: self.current_transactions = [].
CreateBlockReset(t) ==
    /\ th[t].pc = "reset_pool"
    /\ current_transactions' = <<>>
    /\ th' = [th EXCEPT ![t].pc = "append_block"]
    /\ UNCHANGED service_vars
    /\ UNCHANGED <<users, quotas, pending_issuances, issuance_counter, chain,
                   clock, tx_counter, requests, boots>>

\* create_block, third part: self.chain.append(block).
CreateBlockAppend(t) ==
    /\ th[t].pc = "append_block"
    /\ chain' = Append(chain, th[t].block)
    /\ th' = [th EXCEPT ![t].pc = "return"]
    /\ UNCHANGED service_vars
    /\ UNCHANGED <<users, quotas, pending_issuances, issuance_counter,
                   current_transactions, clock, tx_counter, requests, boots>>

\* buy_credit after blockchain_adapter.add_transaction has returned: the
\* success is flashed, save_data is called and the request ends.
BuyCreditReturn(t) ==
    /\ th[t].pc = "return"
    /\ th[t].route = "buy_credit"
    /\ th' = [th EXCEPT ![t] = Idle]
    /\ UNCHANGED service_vars
    /\ UNCHANGED <<users, quotas, pending_issuances, issuance_counter, chain,
                   current_transactions, clock, tx_counter, requests, boots>>

\* ------------------------------------------------------------------ issuance

\* issue_credit: a producer that is not frozen files a request under the
\* next id "ISSUE-n".
IssueCredit(username, form) ==
    /\ Receive
    /\ RoleRequired(username, {"Producer"})
    /\ ~users[username].frozen
    /\ form.is_int
    /\ issuance_counter' = issuance_counter + 1
    /\ pending_issuances' =
          [id \in DOMAIN pending_issuances \cup {issuance_counter + 1} |->
              IF id = issuance_counter + 1
              THEN [producer_name |-> username,
                    amount |-> form.value,
                    status |-> "Pending Verification"]
              ELSE pending_issuances[id]]
    /\ UNCHANGED service_vars
    /\ UNCHANGED <<users, quotas, chain, current_transactions, clock,
                   tx_counter, th, boots>>

\* del APP_DATA['pending_issuances'][issuance_id]
DelIssuance(issuance_id) ==
    [id \in DOMAIN pending_issuances \ {issuance_id} |-> pending_issuances[id]]

\* process_issuance with action 'Certify', up to the call of
\* SimulatedBlockchain.add_transaction inside blockchain_adapter.issue_credits.
ProcessIssuanceCertify(t, user, issuance_id) ==
    /\ RoleRequired(user, {"State Poll", "Government"})
    /\ issuance_id \in DOMAIN pending_issuances
    /\ Receive
    /\ Accepts(t)
    /\ LET issuance == pending_issuances[issuance_id]
       IN  th' = [th EXCEPT ![t] =
                    [Idle EXCEPT !.pc = "add_transaction",
                                 !.route = "process_issuance",
                                 !.sender = SystemSender,
                                 !.recipient = issuance.producer_name,
                                 !.amount = issuance.amount,
                                 !.issuance_id = issuance_id,
                                 !.details = Details("Certified Issuance ID",
                                                     issuance_id)]]
    /\ UNCHANGED service_vars
    /\ UNCHANGED <<users, quotas, pending_issuances, issuance_counter, chain,
                   current_transactions, clock, tx_counter, boots>>

\* process_issuance after issue_credits has returned True: the request is
\* deleted (a KeyError, when another request deleted it meanwhile, is caught
\* by the handler's except clause) and save_data is called.
ProcessIssuanceReturn(t) ==
    /\ th[t].pc = "return"
    /\ th[t].route = "process_issuance"
    /\ pending_issuances' =
          IF th[t].issuance_id \in DOMAIN pending_issuances
          THEN DelIssuance(th[t].issuance_id)
          ELSE pending_issuances
    /\ th' = [th EXCEPT ![t] = Idle]
    /\ UNCHANGED service_vars
    /\ UNCHANGED <<users, quotas, issuance_counter, chain,
                   current_transactions, clock, tx_counter, requests, boots>>

\* process_issuance with action 'Scrutinize': State Poll only.
ProcessIssuanceScrutinize(user, issuance_id) ==
    /\ Receive
    /\ RoleRequired(user, {"State Poll", "Government"})
    /\ issuance_id \in DOMAIN pending_issuances
    /\ SessionRole(user) = "State Poll"
    /\ pending_issuances' =
          [pending_issuances EXCEPT ![issuance_id].status = "Under Scrutiny"]
    /\ UNCHANGED service_vars
    /\ UNCHANGED <<users, quotas, issuance_counter, chain,
                   current_transactions, clock, tx_counter, th, boots>>

\* process_issuance with action 'Reject'.
ProcessIssuanceReject(user, issuance_id) ==
    /\ Receive
    /\ RoleRequired(user, {"State Poll", "Government"})
    /\ issuance_id \in DOMAIN pending_issuances
    /\ pending_issuances' = DelIssuance(issuance_id)
    /\ UNCHANGED service_vars
    /\ UNCHANGED <<users, quotas, issuance_counter, chain,
                   current_transactions, clock, tx_counter, th, boots>>

\* ------------------------------------------------------------------ government

\* freeze_account without role_required(['Government']).
FreezeAccountAnyRole(t, user, username) ==
    /\ Receive
    /\ Accepts(t)
    /\ user \in DOMAIN users
    /\ username \in DOMAIN users
    /\ users' = [users EXCEPT ![username].frozen = ~users[username].frozen]
    /\ th' = [th EXCEPT ![t] =
                 [Idle EXCEPT !.pc = "respond",
                              !.route = "freeze_account",
                              !.user = user,
                              !.target = username]]
    /\ UNCHANGED service_vars
    /\ UNCHANGED <<quotas, pending_issuances, issuance_counter, chain,
                   current_transactions, clock, tx_counter, boots>>

\* freeze_account: the frozen flag of a registered user is toggled and the
\* request is answered with the redirect to the dashboard.
FreezeAccount(t, user, username) ==
    /\ Receive
    /\ Accepts(t)
    /\ RoleRequired(user, {"Government"})
    /\ username \in DOMAIN users
    /\ users' = [users EXCEPT ![username].frozen = ~users[username].frozen]
    /\ th' = [th EXCEPT ![t] =
                 [Idle EXCEPT !.pc = "respond",
                              !.route = "freeze_account",
                              !.user = user,
                              !.target = username]]
    /\ UNCHANGED service_vars
    /\ UNCHANGED <<quotas, pending_issuances, issuance_counter, chain,
                   current_transactions, clock, tx_counter, boots>>

\* APP_DATA['quotas'][name] = quota
SetQuota(name, quota) ==
    [n \in DOMAIN quotas \cup {name} |-> IF n = name THEN quota ELSE quotas[n]]

\* set_producer_quota
SetProducerQuota(user, producer_name, quota) ==
    /\ Receive
    /\ RoleRequired(user, {"Government"})
    /\ quotas' = SetQuota(producer_name, quota)
    /\ UNCHANGED service_vars
    /\ UNCHANGED <<users, pending_issuances, issuance_counter, chain,
                   current_transactions, clock, tx_counter, th, boots>>

\* set_factory_quota
SetFactoryQuota(user, factory_name, quota) ==
    /\ Receive
    /\ RoleRequired(user, {"Government"})
    /\ quotas' = SetQuota(factory_name, quota)
    /\ UNCHANGED service_vars
    /\ UNCHANGED <<users, pending_issuances, issuance_counter, chain,
                   current_transactions, clock, tx_counter, th, boots>>

\* ------------------------------------------------------------------ chain information

\* A call of blockchain_adapter.get_chain_info, which in simulated mode is
\* SimulatedBlockchain.get_chain_info: the caller is handed the dictionary.
\* (seen_chain and seen_pool remember the ledger the call read; the code
\* does not keep them.)
GetChainInfoCall(t) ==
    /\ Receive
    /\ Accepts(t)
    /\ th' = [th EXCEPT ![t] =
                 [Idle EXCEPT !.pc = "respond",
                              !.route = "get_chain_info",
                              !.info = GetChainInfo,
                              !.seen_chain = chain,
                              !.seen_pool = current_transactions]]
    /\ UNCHANGED service_vars
    /\ UNCHANGED <<users, quotas, pending_issuances, issuance_counter, chain,
                   current_transactions, clock, tx_counter, boots>>

\* ------------------------------------------------------------------ account mapper

\* The usernames the mapper is called with: two names and the empty text.
MapperUsernames == {"", "alice", "bob"}

\* The addresses the mapper is called with, each the sequence of its
\* characters: one address in two spellings that differ in the case of its
\* letters, two more addresses and the empty text.
MapperAddresses ==
    {<<>>,
     <<"0", "x", "A", "b">>,
     <<"0", "x", "a", "b">>,
     <<"0", "x", "c", "d">>,
     <<"0", "x", "E", "F">>}

\* str.lower for one character.
LowerChar(char) ==
    CASE char = "A" -> "a"
      [] char = "B" -> "b"
      [] char = "E" -> "e"
      [] char = "F" -> "f"
      [] OTHER -> char

\* str.lower
Lower(text) == [i \in 1..Len(text) |-> LowerChar(text[i])]

\* The mapper before its first call.
NoMapperCall ==
    [op |-> None, username |-> "", address |-> <<>>, result |-> FALSE]

\* dictionary[key] = value
DictSet(dictionary, key, value) ==
    [k \in DOMAIN dictionary \cup {key} |->
        IF k = key THEN value ELSE dictionary[k]]

\* del dictionary[key]
DictDel(dictionary, key) ==
    [k \in DOMAIN dictionary \ {key} |-> dictionary[k]]

\* AccountMapper.get_address_by_username: dict.get
GetAddressByUsername(username) ==
    IF username \in DOMAIN username_to_address
    THEN username_to_address[username]
    ELSE None

\* AccountMapper.get_username_by_address: the username of the first key
\* that equals the address when both are put in lower case. (The keys are
\* visited in the order of insertion, which is not kept here: of several
\* such keys any one is taken.)
GetUsernameByAddress(address) ==
    LET matching == {addr \in DOMAIN address_to_username :
                        Lower(addr) = Lower(address)}
    IN  IF matching = {} THEN None
        ELSE address_to_username[CHOOSE addr \in matching : TRUE]

\* register_account without its test for an address that is taken.
RegisterAccountAddressUnchecked(username, address) ==
    /\ IF username = "" \/ address = <<>>
       THEN /\ mapper_call' = [op |-> "register_account",
                               username |-> username,
                               address |-> address,
                               result |-> FALSE]
            /\ UNCHANGED <<username_to_address, address_to_username>>
       ELSE IF username \in DOMAIN username_to_address
       THEN /\ mapper_call' =
                  [op |-> "register_account",
                   username |-> username,
                   address |-> address,
                   result |-> Lower(username_to_address[username])
                                 = Lower(address)]
            /\ UNCHANGED <<username_to_address, address_to_username>>
       ELSE /\ username_to_address' =
                  DictSet(username_to_address, username, address)
            /\ address_to_username' =
                  DictSet(address_to_username, address, username)
            /\ mapper_call' = [op |-> "register_account",
                               username |-> username,
                               address |-> address,
                               result |-> TRUE]
    /\ UNCHANGED <<retry, classified, ai_service, analysis>>
    /\ UNCHANGED app_vars

\* AccountMapper.register_account: empty arguments are refused; a username
\* that is mapped succeeds exactly when its address is the given one up to
\* the case of the letters, and nothing is stored; an address that is
\* mapped, up to case, is refused; otherwise both dictionaries take the
\* new pair.
RegisterAccount(username, address) ==
    /\ IF username = "" \/ address = <<>>
       THEN /\ mapper_call' = [op |-> "register_account",
                               username |-> username,
                               address |-> address,
                               result |-> FALSE]
            /\ UNCHANGED <<username_to_address, address_to_username>>
       ELSE IF username \in DOMAIN username_to_address
       THEN /\ mapper_call' =
                  [op |-> "register_account",
                   username |-> username,
                   address |-> address,
                   result |-> Lower(username_to_address[username])
                                 = Lower(address)]
            /\ UNCHANGED <<username_to_address, address_to_username>>
       ELSE IF \E addr \in DOMAIN address_to_username :
                  Lower(addr) = Lower(address)
       THEN /\ mapper_call' = [op |-> "register_account",
                               username |-> username,
                               address |-> address,
                               result |-> FALSE]
            /\ UNCHANGED <<username_to_address, address_to_username>>
       ELSE /\ username_to_address' =
                  DictSet(username_to_address, username, address)
            /\ address_to_username' =
                  DictSet(address_to_username, address, username)
            /\ mapper_call' = [op |-> "register_account",
                               username |-> username,
                               address |-> address,
                               result |-> TRUE]
    /\ UNCHANGED <<retry, classified, ai_service, analysis>>
    /\ UNCHANGED app_vars

\* AccountMapper.remove_mapping: the username's pair is deleted from both
\* dictionaries. (When the address is no key of address_to_username the
\* second del raises KeyError after the first has been done; the except
\* clause returns False.)
RemoveMapping(username) ==
    /\ IF username \notin DOMAIN username_to_address
       THEN /\ mapper_call' = [op |-> "remove_mapping",
                               username |-> username,
                               address |-> <<>>,
                               result |-> FALSE]
            /\ UNCHANGED <<username_to_address, address_to_username>>
       ELSE LET address == username_to_address[username]
            IN  /\ username_to_address' =
                      DictDel(username_to_address, username)
                /\ address_to_username' =
                      DictDel(address_to_username, address)
                /\ mapper_call' =
                      [op |-> "remove_mapping",
                       username |-> username,
                       address |-> address,
                       result |-> address \in DOMAIN address_to_username]
    /\ UNCHANGED <<retry, classified, ai_service, analysis>>
    /\ UNCHANGED app_vars

\* ------------------------------------------------------------------ error handler

\* retryable_keywords of _is_retryable_error
RetryableKeywords ==
    {"timeout", "connection", "network", "temporary", "busy", "rate limit",
     "throttle", "congestion"}

\* non_retryable_keywords of _is_retryable_error
NonRetryableKeywords ==
    {"invalid", "unauthorized", "forbidden", "not found",
     "insufficient balance", "revert", "validation"}

\* Words of error messages that are no keyword: one that contains none, a
\* longer word with the keyword "revert" in it, and the halves of two
\* keywords.
OtherWords == {"error", "reverted", "rate", "found"}

\* An error message, str(error), is a sequence of words and phrases, each
\* written in small letters or with capital letters in it. text is the
\* spelling in small letters.
MessageParts ==
    [text : RetryableKeywords \cup NonRetryableKeywords \cup OtherWords,
     capitals : BOOLEAN]

\* Sequences of at most n elements of a set.
RECURSIVE SeqsUpTo(_, _)
SeqsUpTo(set, n) ==
    IF n = 0 THEN {<<>>}
    ELSE LET shorter == SeqsUpTo(set, n - 1)
         IN  shorter \cup {Append(seq, x) : seq \in shorter, x \in set}

\* The error messages _is_retryable_error is called with.
ErrorMessages == SeqsUpTo(MessageParts, MaxMessageLen)

\* str(error).lower()
LowerMessage(message) ==
    [i \in 1..Len(message) |-> [message[i] EXCEPT !.capitals = FALSE]]

\* The keywords of the handler that are a part of a longer word or phrase
\* of the messages: <<keyword, word or phrase>>.
Substrings ==
    {<<"revert", "reverted">>,
     <<"balance", "insufficient balance">>,
     <<"insufficient", "insufficient balance">>}

\* keyword in error_str: the keyword is a substring of the text as it is
\* spelled, so a part with capital letters in it holds no keyword.
KeywordIn(keyword, error_str) ==
    \E i \in 1..Len(error_str) :
        /\ ~error_str[i].capitals
        /\ \/ error_str[i].text = keyword
           \/ <<keyword, error_str[i].text>> \in Substrings

\* _is_retryable_error that looks for the retryable keywords first.
IsRetryableErrorRetryableFirst(message) ==
    LET error_str == LowerMessage(message)
    IN  IF \E keyword \in RetryableKeywords : KeywordIn(keyword, error_str)
        THEN TRUE
        ELSE FALSE

\* BlockchainErrorHandler._is_retryable_error
IsRetryableError(message) ==
    LET error_str == LowerMessage(message)
    IN  IF \E keyword \in NonRetryableKeywords :
               KeywordIn(keyword, error_str)
        THEN FALSE
        ELSE IF \E keyword \in RetryableKeywords :
                    KeywordIn(keyword, error_str)
        THEN TRUE
        ELSE FALSE

\* BlockchainErrorHandler.handle_error: the BlockchainError made from an
\* error, its type found by the first list of keywords that has one in the
\* message in lower case, its details the message and the operation.
\* (message, f"... error during {operation}: {str(error)}", is left out.)
HandleError(error, operation) ==
    LET error_str == LowerMessage(error)
        HasAny(keywords) == \E keyword \in keywords : KeywordIn(keyword, error_str)
    IN  [error_type |->
             IF HasAny({"connection", "network", "timeout", "unreachable"})
             THEN "network_error"
             ELSE IF HasAny({"gas", "out of gas", "gas limit", "gas price"})
             THEN "gas_error"
             ELSE IF HasAny({"transaction", "revert", "failed", "reverted"})
             THEN "transaction_error"
             ELSE IF HasAny({"contract", "abi", "function", "method"})
             THEN "contract_error"
             ELSE IF HasAny({"account", "address", "balance", "insufficient"})
             THEN "account_error"
             ELSE IF HasAny({"invalid", "validation", "format", "required"})
             THEN "validation_error"
             ELSE "unknown_error",
         original_error |-> error,
         operation |-> operation]

\* No BlockchainError.
NoBlockchainError ==
    [error_type |-> None, original_error |-> <<>>, operation |-> None]

\* max_retries of BlockchainErrorHandler() without arguments.
DefaultMaxRetries == 3

\* A BlockchainErrorHandler(max_retries) before execute_with_retry is
\* called. attempts is what operation_func did at each of its invocations;
\* the code keeps last_error only.
NewRetry(max_retries) ==
    [pc |-> "idle",
     max_retries |-> max_retries,
     attempt |-> 0,
     attempts |-> <<>>,
     last_error |-> <<>>,
     result |-> 0,
     raised |-> NoBlockchainError]

\* What an invocation of operation_func does: it returns a block number or
\* raises an error with a message that is retryable, permanent or neither,
\* in small letters or with capitals.
OperationOutcomes ==
    [ok : {TRUE}, value : {3, 4}, error : {<<>>}]
    \cup [ok : {FALSE},
          value : {0},
          error : {<<part>> : part \in [text : {"timeout", "invalid", "error"},
                                        capitals : BOOLEAN]}]

\* execute_with_retry is called: last_error = None and the loop begins.
\* (range(max_retries + 1) is not empty for the max_retries >= 0 modelled.)
ExecuteWithRetry ==
    /\ retry.pc = "idle"
    /\ retry' = [retry EXCEPT !.pc = "try"]
    /\ UNCHANGED <<username_to_address, address_to_username, mapper_call,
                   classified, ai_service, analysis>>
    /\ UNCHANGED app_vars

\* An attempt that retries once more than max_retries allows.
AttemptOneMore(outcome) ==
    /\ retry.pc = "try"
    /\ LET tried == [retry EXCEPT !.attempts = Append(@, outcome)]
       IN  IF outcome.ok
           THEN retry' = [tried EXCEPT !.pc = "returned",
                                       !.result = outcome.value]
           ELSE IF retry.attempt <= retry.max_retries
                   /\ IsRetryableError(outcome.error)
           THEN retry' = [tried EXCEPT !.last_error = outcome.error,
                                       !.attempt = @ + 1]
           ELSE retry' = [tried EXCEPT !.last_error = outcome.error,
                                       !.pc = "raise"]
    /\ UNCHANGED <<username_to_address, address_to_username, mapper_call,
                   classified, ai_service, analysis>>
    /\ UNCHANGED app_vars

\* One pass of the loop of execute_with_retry: operation_func is invoked;
\* its result is returned, or its error is kept as last_error and, when
\* attempts are left and _is_retryable_error says so, the loop goes on
\* after the delay; otherwise the loop is left.
Attempt(outcome) ==
    /\ retry.pc = "try"
    /\ LET tried == [retry EXCEPT !.attempts = Append(@, outcome)]
       IN  IF outcome.ok
           THEN retry' = [tried EXCEPT !.pc = "returned",
                                       !.result = outcome.value]
           ELSE IF retry.attempt < retry.max_retries
                   /\ IsRetryableError(outcome.error)
           THEN retry' = [tried EXCEPT !.last_error = outcome.error,
                                       !.attempt = @ + 1]
           ELSE retry' = [tried EXCEPT !.last_error = outcome.error,
                                       !.pc = "raise"]
    /\ UNCHANGED <<username_to_address, address_to_username, mapper_call,
                   classified, ai_service, analysis>>
    /\ UNCHANGED app_vars

\* After the loop: raise handle_error(last_error, operation_func.__name__).
RaiseBlockchainError ==
    /\ retry.pc = "raise"
    /\ retry' = [retry EXCEPT
                    !.pc = "raised",
                    !.raised = HandleError(retry.last_error,
                                           "_execute_transaction")]
    /\ UNCHANGED <<username_to_address, address_to_username, mapper_call,
                   classified, ai_service, analysis>>
    /\ UNCHANGED app_vars

\* No call of _is_retryable_error.
NotClassified == [error |-> <<>>, called |-> FALSE, result |-> FALSE]

\* A call of _is_retryable_error with the error at hand.
IsRetryableErrorCall ==
    /\ ~classified.called
    /\ classified' = [classified EXCEPT
                         !.called = TRUE,
                         !.result = IsRetryableError(classified.error)]
    /\ UNCHANGED <<username_to_address, address_to_username, mapper_call,
                   retry, ai_service, analysis>>
    /\ UNCHANGED app_vars

\* ------------------------------------------------------------------ AI service

\* What _initialize_ai_model finds: config.is_ai_enabled(), whether
\* google.generativeai can be imported, and the API key file.
AIEnvironments ==
    [enabled : BOOLEAN,
     genai : BOOLEAN,
     api_key : {"missing", "empty", "present"}]

\* AIService.__init__ in an environment.
NewAIService(environment) ==
    [_model |-> None,
     _initialized |-> FALSE,
     _initialization_error |-> None,
     environment |-> environment]

\* AIService._initialize_ai_model: the service after the call. The model
\* is loaded at the first call only.
InitializeAIModel(service) ==
    IF service._initialized THEN service
    ELSE LET started == [service EXCEPT !._initialized = TRUE]
             environment == service.environment
         IN  IF ~environment.enabled THEN started
             ELSE IF ~environment.genai
             THEN [started EXCEPT
                      !._initialization_error = "Google GenAI not available"]
             ELSE IF environment.api_key = "missing"
             THEN [started EXCEPT
                      !._initialization_error = "API key file not found"]
             ELSE IF environment.api_key = "empty"
             THEN [started EXCEPT
                      !._initialization_error = "API key file is empty"]
             ELSE [started EXCEPT !._model = "GenerativeModel"]

\* AIService.is_available, on the service after _initialize_ai_model.
IsAvailable(service) == service._model # None

\* The texts the model answers with: the JSON object the prompt asks for,
\* a JSON object without risk_score and assessment, a JSON list, and text
\* that is no JSON.
ResponseTexts ==
    {"analysis object", "summary object", "empty list", "not JSON"}

\* What self._model.generate_content does: it raises, or it returns a
\* response with one of the texts, with or without a ```json fence around
\* it.
ModelResponses ==
    {[raises |-> TRUE, fence |-> FALSE, body |-> "not JSON"]}
    \cup [raises : {FALSE}, fence : BOOLEAN, body : ResponseTexts]

\* The arguments of get_risk_analysis: the producer, the capacity, the
\* pending amount and the history, whose entries carry their timestamp as
\* text or as a number.
AnalysisArguments ==
    [producer_name : {"", SomnathProducers},
     capacity : {-1, 5000},
     pending_amount : {0, InitialCredits},
     transaction_history :
         {<<>>,
          <<[amount |-> InitialCredits, timestamp |-> "text"]>>,
          <<[amount |-> InitialCredits, timestamp |-> "number"]>>}]

\* response.text.strip().replace("```json", "").replace("```", "")
CleanedText(response) == [response EXCEPT !.fence = FALSE]

\* json.loads: the value of the text, or JSONDecodeError for text that is
\* no JSON (as is text with the fence still around it).
JsonLoads(text) ==
    IF text.fence \/ text.body = "not JSON"
    THEN [type |-> "JSONDecodeError"]
    ELSE IF text.body = "analysis object"
    THEN [type |-> "object",
          value |-> [risk_score |-> 20,
                     assessment |-> "Low Risk",
                     summary |-> "Consistent with capacity.",
                     detailed_analysis |-> <<"No anomalies.">>]]
    ELSE IF text.body = "summary object"
    THEN [type |-> "object",
          value |-> [summary |-> "Consistent with capacity."]]
    ELSE [type |-> "array", value |-> <<>>]

\* The result get_risk_analysis returns when the service is unavailable.
UnavailableResult(service) ==
    [error |-> IF service._initialization_error # None
               THEN service._initialization_error
               ELSE "AI service is not available",
     risk_score |-> 50,
     assessment |-> "Medium Risk",
     summary |-> "AI analysis unavailable - manual review required",
     detailed_analysis |->
         <<"AI service is not available for automated analysis">>]

\* The result of the except clause for json.JSONDecodeError.
ParseFailureResult ==
    [error |-> "Failed to parse AI analysis response",
     risk_score |-> 75,
     assessment |-> "High Risk",
     summary |-> "AI analysis failed - manual review required",
     detailed_analysis |-> <<"AI response could not be parsed properly">>]

\* The result of the except clause for Exception.
FailureResult ==
    [error |-> "AI analysis failed",
     risk_score |-> 75,
     assessment |-> "High Risk",
     summary |->
         "AI analysis encountered an error - manual review required",
     detailed_analysis |->
         <<"AI analysis system encountered an unexpected error">>]

\* The try block of get_risk_analysis: slicing a timestamp that is a number
\* raises TypeError, generate_content may raise, json.loads may raise
\* JSONDecodeError, and .get on a value that is no object raises
\* AttributeError; otherwise the parsed value is returned as it is.
RiskAnalysis(arguments, response) ==
    IF \E i \in 1..Len(arguments.transaction_history) :
           arguments.transaction_history[i].timestamp = "number"
    THEN FailureResult
    ELSE IF response.raises THEN FailureResult
    ELSE LET analysis_result == JsonLoads(CleanedText(response))
         IN  IF analysis_result.type = "JSONDecodeError"
             THEN ParseFailureResult
             ELSE IF analysis_result.type # "object" THEN FailureResult
             ELSE analysis_result.value

\* No call of get_risk_analysis.
NoAnalysis ==
    [called |-> FALSE,
     arguments |-> [producer_name |-> "", capacity |-> 0,
                    pending_amount |-> 0, transaction_history |-> <<>>],
     available |-> FALSE,
     result |-> <<>>]

\* AIService.get_risk_analysis
GetRiskAnalysis(arguments, response) ==
    /\ LET service == InitializeAIModel(ai_service)
       IN  /\ ai_service' = service
           /\ analysis' =
                 [called |-> TRUE,
                  arguments |-> arguments,
                  available |-> IsAvailable(service),
                  result |-> IF IsAvailable(service)
                             THEN RiskAnalysis(arguments, response)
                             ELSE UnavailableResult(service)]
    /\ UNCHANGED <<username_to_address, address_to_username, mapper_call,
                   retry, classified>>
    /\ UNCHANGED app_vars

\* ------------------------------------------------------------------ the program

\* setup_initial_users: the five initial accounts.
InitialUsers ==
    [name \in {GovtAdmin, StatePollGujarat, SomnathProducers, AmmoniaFactory,
               CitizenOne} |->
        [role |-> CASE name = GovtAdmin -> "Government"
                    [] name = StatePollGujarat -> "State Poll"
                    [] name = SomnathProducers -> "Producer"
                    [] name = AmmoniaFactory -> "Factory"
                    [] name = CitizenOne -> "Citizen",
         frozen |-> FALSE,
         attributes |->
             CASE name = SomnathProducers ->
                      <<<<"state_verification_no", "SVN-GJ-001">>,
                        <<"capacity", 5000>>>>
               [] name = AmmoniaFactory ->
                      <<<<"industry_type", "Ammonia">>,
                        <<"industry_consumption", 20000>>>>
               [] OTHER -> <<>>]]

\* The genesis block SimulatedBlockchain.__init__ creates.
GenesisBlock == NewBlock(1, 0, <<>>, GenesisProof, GenesisPreviousHash)

\* The transaction of the bootstrap issuance: load_data without a data file
\* calls setup_initial_users, which issues InitialCredits to
\* SomnathProducers.
BootstrapTransaction ==
    LET tx == [sender |-> SystemSender,
               recipient |-> SomnathProducers,
               amount |-> InitialCredits,
               details |-> Details("Initial credit allocation", 0),
               transaction_id |-> 1,
               nonce |-> 1]
    IN  [sender |-> SystemSender,
         recipient |-> SomnathProducers,
         amount |-> InitialCredits,
         details |-> Details("Initial credit allocation", 0),
         transaction_id |-> 1,
         nonce |-> 1,
         transaction_hash |-> HashTransaction(tx)]

\* The block of the bootstrap issuance.
BootstrapBlock ==
    NewBlock(2, 1, <<BootstrapTransaction>>, ProofOfWork(GenesisBlock.proof),
             Hash(GenesisBlock))

\* The application after the module is imported and load_data has run for
\* the first time.
AppInit ==
    /\ users = InitialUsers
    /\ quotas = <<>>
    /\ pending_issuances = <<>>
    /\ issuance_counter = 0
    /\ chain = <<GenesisBlock, BootstrapBlock>>
    /\ current_transactions = <<>>
    /\ clock = 2
    /\ tx_counter = 1
    /\ th = [t \in Threads |-> Idle]
    /\ requests = 0
    /\ boots = 0

\* account_mapper = AccountMapper(), without a mappings file.
MapperInit ==
    /\ username_to_address = <<>>
    /\ address_to_username = <<>>
    /\ mapper_call = NoMapperCall

\* error_handler = BlockchainErrorHandler()
HandlerInit ==
    /\ retry = NewRetry(DefaultMaxRetries)
    /\ classified = NotClassified

\* ai_service = AIService()
AIInit ==
    /\ ai_service = NewAIService([enabled |-> TRUE, genai |-> TRUE,
                                  api_key |-> "missing"])
    /\ analysis = NoAnalysis

\* The state after the module and its services are imported.
Init ==
    /\ AppInit
    /\ MapperInit
    /\ HandlerInit
    /\ AIInit

\* ------------------------------------------------------------------ persistence

\* save_data: json.dump(APP_DATA). APP_DATA['blockchain'] is the dictionary
\* load_data created, with an empty chain and an empty pool: the ledger is
\* the adapter's and save_data does not copy it into APP_DATA.
SaveData ==
    [users |-> users,
     blockchain |-> [chain |-> <<>>, current_transactions |-> <<>>],
     pending_issuances |-> pending_issuances,
     quotas |-> quotas,
     issuance_counter |-> issuance_counter]

\* The process is stopped and started again. Every handler that changes
\* APP_DATA calls save_data before it answers, so the data file holds
\* APP_DATA as it is. Importing the module creates the adapter with a new
\* SimulatedBlockchain, which creates its genesis block; load_data finds the
\* data file, reads APP_DATA from it and does not call setup_initial_users.
\* The requests that were being handled are gone.
Restart ==
    /\ boots < MaxRestarts
    /\ boots' = boots + 1
    /\ LET data_file == SaveData
       IN  /\ users' = data_file.users
           /\ quotas' = data_file.quotas
           /\ pending_issuances' = data_file.pending_issuances
           /\ issuance_counter' = data_file.issuance_counter
    /\ chain' = <<NewBlock(1, clock, <<>>, GenesisProof, GenesisPreviousHash)>>
    /\ current_transactions' = <<>>
    /\ clock' = clock + 1
    /\ th' = [t \in Threads |-> Idle]
    /\ UNCHANGED service_vars
    /\ UNCHANGED <<tx_counter, requests>>

Next ==
    \/ \E t \in Threads, buyer \in DOMAIN users, form \in BuyForms :
          BuyCredit(t, buyer, form.seller, form.amount)
    \/ \E t \in Threads : Respond(t)
    \/ \E t \in Threads : SimAddTransaction(t)
    \/ \E t \in Threads : MineBlock(t)
    \/ \E t \in Threads : CreateBlockBuild(t)
    \/ \E t \in Threads : CreateBlockReset(t)
    \/ \E t \in Threads : CreateBlockAppend(t)
    \/ \E t \in Threads : BuyCreditReturn(t)
    \/ \E user \in DOMAIN users, form \in IssueForms : IssueCredit(user, form)
    \/ \E t \in Threads, user \in DOMAIN users,
          id \in DOMAIN pending_issuances :
              ProcessIssuanceCertify(t, user, id)
    \/ \E t \in Threads : ProcessIssuanceReturn(t)
    \/ \E user \in DOMAIN users, id \in DOMAIN pending_issuances :
          ProcessIssuanceScrutinize(user, id)
    \/ \E user \in DOMAIN users, id \in DOMAIN pending_issuances :
          ProcessIssuanceReject(user, id)
    \/ \E t \in Threads, user \in DOMAIN users, username \in FreezeInputs :
          FreezeAccount(t, user, username)
    \/ \E user \in DOMAIN users, name \in DOMAIN users, q \in QuotaInputs :
          /\ users[name].role = "Producer"
          /\ SetProducerQuota(user, name, q)
    \/ \E user \in DOMAIN users, name \in DOMAIN users, q \in QuotaInputs :
          /\ users[name].role = "Factory"
          /\ SetFactoryQuota(user, name, q)
    \/ \E t \in Threads : GetChainInfoCall(t)
    \/ \E t \in Threads, form \in RegisterForms : Register(t, form)
    \/ Restart

Spec == Init /\ [][Next]_vars

\* The application after SomnathProducers has filed the issuance request
\* ISSUE-1 for InitialCredits credits (issue_credit).
FiledInit ==
    /\ users = InitialUsers
    /\ quotas = <<>>
    /\ pending_issuances =
          <<[producer_name |-> SomnathProducers,
             amount |-> InitialCredits,
             status |-> "Pending Verification"]>>
    /\ issuance_counter = 1
    /\ chain = <<GenesisBlock, BootstrapBlock>>
    /\ current_transactions = <<>>
    /\ clock = 2
    /\ tx_counter = 1
    /\ th = [t \in Threads |-> Idle]
    /\ requests = 0
    /\ boots = 0
    /\ MapperInit
    /\ HandlerInit
    /\ AIInit

FiledSpec == FiledInit /\ [][Next]_vars

\* A transaction dictionary of the earlier ledger format, without
\* 'transaction_hash'.
LegacyTransaction ==
    [sender |-> SystemSender,
     recipient |-> SomnathProducers,
     amount |-> InitialCredits,
     details |-> Details("Initial credit allocation", 0)]

\* The chains and pools SimulatedBlockchain is constructed with: no chain
\* or the chain after start-up, no pool or a pool with a transaction of the
\* earlier format.
ConstructorChains == {<<>>, <<GenesisBlock, BootstrapBlock>>}

ConstructorPools == {<<>>, <<LegacyTransaction>>}

\* SimulatedBlockchain.__init__: the chain and the pool given are taken,
\* and for an empty chain create_block makes the genesis block, from the
\* pool.
ConstructedChain(chain_given, pool_given) ==
    IF chain_given = <<>>
    THEN <<CreatedBlock(NewBlock(1, 0, pool_given, GenesisProof,
                                 GenesisPreviousHash))>>
    ELSE chain_given

ConstructedPool(chain_given, pool_given) ==
    IF chain_given = <<>> THEN <<>> ELSE pool_given

\* The application on a ledger that was constructed with a chain and a
\* pool.
ConstructedInit ==
    /\ users = InitialUsers
    /\ quotas = <<>>
    /\ pending_issuances = <<>>
    /\ issuance_counter = 0
    /\ \E chain_given \in ConstructorChains, pool_given \in ConstructorPools :
          /\ chain = ConstructedChain(chain_given, pool_given)
          /\ current_transactions = ConstructedPool(chain_given, pool_given)
    /\ clock = 2
    /\ tx_counter = 1
    /\ th = [t \in Threads |-> Idle]
    /\ requests = 0
    /\ boots = 0
    /\ MapperInit
    /\ HandlerInit
    /\ AIInit

ConstructedSpec == ConstructedInit /\ [][Next]_vars

\* The account mapper on its own: AccountMapper() without a mappings file,
\* then any calls of register_account and remove_mapping.
MapperNext ==
    \/ \E username \in MapperUsernames, address \in MapperAddresses :
          RegisterAccount(username, address)
    \/ \E username \in MapperUsernames : RemoveMapping(username)

MapperSpec == Init /\ [][MapperNext]_vars

\* _is_retryable_error on its own: an error with any of the messages, then
\* the call.
ClassifyInit ==
    /\ AppInit
    /\ MapperInit
    /\ AIInit
    /\ retry = NewRetry(DefaultMaxRetries)
    /\ classified \in {[NotClassified EXCEPT !.error = message] :
                          message \in ErrorMessages}

ClassifyNext == IsRetryableErrorCall

ClassifySpec == ClassifyInit /\ [][ClassifyNext]_vars

\* execute_with_retry on its own: a handler with any max_retries, the call,
\* and operation_func doing at each invocation any of the things it does.
RetryInit ==
    /\ AppInit
    /\ MapperInit
    /\ AIInit
    /\ retry \in {NewRetry(max_retries) : max_retries \in 0..MaxRetries}
    /\ classified = NotClassified

RetryNext ==
    \/ ExecuteWithRetry
    \/ \E outcome \in OperationOutcomes : Attempt(outcome)
    \/ RaiseBlockchainError

RetrySpec == RetryInit /\ [][RetryNext]_vars

\* operation_func returns or raises at each invocation and the handler
\* then takes its next step: the call is not left standing.
RetryFairSpec == RetrySpec /\ WF_vars(RetryNext)

\* The AI service on its own: AIService() in any environment, then calls
\* of get_risk_analysis.
AnalysisInit ==
    /\ AppInit
    /\ MapperInit
    /\ HandlerInit
    /\ ai_service \in {NewAIService(environment) :
                          environment \in AIEnvironments}
    /\ analysis = NoAnalysis

AnalysisNext ==
    \E arguments \in AnalysisArguments, response \in ModelResponses :
        GetRiskAnalysis(arguments, response)

AnalysisSpec == AnalysisInit /\ [][AnalysisNext]_vars

\* ------------------------------------------------------------------ properties

\* The issuance senders that calculate_user_balances never debits.
Sentinels == {SystemSender, "NETWORK_GENESIS", "NETWORK_CERTIFIER"}

\* The names balances are asked for: the registered accounts, the issuance
\* sender and a name no transaction mentions.
AccountNames == DOMAIN users \cup {SystemSender, "NonExistentUser"}

\* The transactions of a sequence of blocks, in chain order.
RECURSIVE TransactionsOf(_)
TransactionsOf(blocks) ==
    IF blocks = <<>> THEN <<>>
    ELSE Head(blocks).transactions \o TransactionsOf(Tail(blocks))

CommittedTransactions == TransactionsOf(chain)

\* How often the transaction with this id occurs in a sequence.
Occurrences(txs, id) ==
    Cardinality({i \in 1..Len(txs) : txs[i].transaction_id = id})

Committed(id) == Occurrences(CommittedTransactions, id) > 0

\* The sum of the amounts of the transactions a name received.
RECURSIVE Credited(_, _)
Credited(txs, name) ==
    IF txs = <<>> THEN 0
    ELSE (IF Head(txs).recipient = name THEN Head(txs).amount ELSE 0)
         + Credited(Tail(txs), name)

\* The sum of the amounts of the transactions a name sent, none for a
\* sentinel.
RECURSIVE Debited(_, _)
Debited(txs, name) ==
    IF txs = <<>> THEN 0
    ELSE (IF Head(txs).sender = name /\ name \notin Sentinels
          THEN Head(txs).amount ELSE 0)
         + Debited(Tail(txs), name)

\* A thread takes a /buy-credit request in this step and lets it through to
\* the ledger.
BuyAccepted(t) ==
    /\ th[t].pc = "idle"
    /\ th'[t].pc = "add_transaction"
    /\ th'[t].route = "buy_credit"

\* A thread takes a /buy-credit request with an integer amount in this step
\* and rejects it.
BuyRejected(t) ==
    /\ th[t].pc = "idle"
    /\ th'[t].pc = "respond"
    /\ th'[t].route = "buy_credit"
    /\ th'[t].flash # "Invalid amount."

\* C1: after any sequence of issuances, transfers and block assemblies the
\* balance of every account is at least 0.
C1_BalanceNonNegative ==
    \A a \in DOMAIN users : GetBalance(a) >= 0

\* C2: of two concurrent transfer requests from the same sender, each for the
\* sender's entire balance, at most one is accepted: never are both of their
\* transactions committed.
C2_NoDoubleSpend ==
    \A t1, t2 \in Threads :
        ( /\ t1 # t2
          /\ th[t1].route = "buy_credit"
          /\ th[t2].route = "buy_credit"
          /\ th[t1].pc \in MiningPcs \cup {"return"}
          /\ th[t2].pc \in MiningPcs \cup {"return"}
          /\ th[t1].sender = th[t2].sender
          /\ th[t1].amount > 0
          /\ th[t1].amount = th[t1].seen_balance
          /\ th[t2].amount = th[t2].seen_balance )
        => ~(Committed(th[t1].transaction_id) /\ Committed(th[t2].transaction_id))

\* C3: the balance of every name is the sum of the committed amounts it
\* received minus the sum of the committed amounts it sent, where a sentinel
\* sender is never debited; pooled transactions do not count and a name
\* without transactions has balance 0.
C3_BalanceFormula ==
    \A name \in AccountNames :
        GetBalance(name) =
            Credited(CommittedTransactions, name)
            - Debited(CommittedTransactions, name)

\* C4: for every block i > 1 of the chain, previous_hash is the hash stored
\* in block i-1.
C4_HashLinkage ==
    \A i \in 2..Len(chain) : chain[i].previous_hash = chain[i - 1].hash

\* C5 as claimed: a transfer request whose amount exceeds the sender's
\* balance is rejected as insufficient balance, and the chain, the pool and
\* every balance stay as they were.
C5_OverdraftInsufficient ==
    [][\A t \in Threads :
          (BuyAccepted(t) \/ BuyRejected(t))
          /\ th'[t].amount > GetBalance(th'[t].sender)
          => /\ th'[t].pc = "respond"
             /\ th'[t].flash = "Purchase failed. Seller has insufficient credits."
             /\ chain' = chain
             /\ current_transactions' = current_transactions]_vars

\* C5 as amended: a transfer request whose amount exceeds the sender's
\* balance is rejected, as insufficient balance or, when the buyer has a
\* quota below the amount (the check buy_credit makes first), as exceeding
\* the quota; the chain, the pool and every balance stay as they were.
C5_OverdraftRejected ==
    [][\A t \in Threads :
          (BuyAccepted(t) \/ BuyRejected(t))
          /\ th'[t].amount > GetBalance(th'[t].sender)
          => /\ th'[t].pc = "respond"
             /\ \/ th'[t].flash = "Purchase failed. Seller has insufficient credits."
                \/ /\ th'[t].flash = "Purchase failed. Exceeds quota."
                   /\ th'[t].user \in DOMAIN quotas
                   /\ th'[t].amount > quotas[th'[t].user]
             /\ chain' = chain
             /\ current_transactions' = current_transactions
             /\ \A a \in AccountNames :
                   BalanceOfChain(chain', a) = GetBalance(a)]_vars

\* C5, its case: a request for more than the seller has waits for its
\* response, rejected for insufficient credits.
C5_Witness ==
    \E t \in Threads :
        /\ th[t].pc = "respond"
        /\ th[t].flash = "Purchase failed. Seller has insufficient credits."
        /\ th[t].amount > GetBalance(th[t].sender)
        /\ th[t].amount > 0

\* An account is frozen: a registered name whose frozen flag is set (the
\* seller of a form need not be registered).
IsFrozen(name) == name \in DOMAIN users /\ users[name].frozen

\* C6: while an account is frozen no transfer request with it as sender or
\* as recipient is accepted.
C6_FrozenRejected ==
    [][\A t \in Threads :
          BuyAccepted(t)
          => /\ ~IsFrozen(th'[t].sender)
             /\ ~IsFrozen(th'[t].recipient)]_vars

\* C7: under every interleaving of block assembly and add_transaction, each
\* transaction accepted into the pool is in the pool, in a block about to be
\* appended or in a committed block (none is lost), and in no more than one
\* committed block (none is included twice).
C7_NoTxLostOrDuplicated ==
    \A id \in 1..tx_counter :
        /\ Occurrences(CommittedTransactions, id) <= 1
        /\ \/ Committed(id)
           \/ Occurrences(current_transactions, id) > 0
           \/ \E t \in Threads :
                 /\ th[t].pc \in {"reset_pool", "append_block"}
                 /\ Occurrences(th[t].block.transactions, id) > 0

\* C8: each mine_block call appends one block whose transactions are the
\* pool as it was at the call, in the same order, and leaves the pool empty;
\* no committed transaction is in more than one block.
C8_MineBlockTakesPool ==
    [][\A t \in Threads :
          /\ (th[t].pc = "create_block" /\ th'[t].pc = "reset_pool")
             => th'[t].block.transactions = th[t].pool_at_call
          /\ (th[t].pc = "append_block" /\ th'[t].pc = "return")
             => /\ chain' = Append(chain, th[t].block)
                /\ current_transactions' = <<>>
                /\ \A id \in 1..tx_counter :
                      Occurrences(TransactionsOf(chain'), id) <= 1]_vars

\* C9: every transaction in the pool or in a committed block has an amount
\* above 0 (a request with amount <= 0 is rejected before the pool).
C9_AmountsPositive ==
    /\ \A i \in 1..Len(current_transactions) :
          current_transactions[i].amount > 0
    /\ \A i \in 1..Len(CommittedTransactions) :
          CommittedTransactions[i].amount > 0

\* C10: no committed transaction with a non-sentinel sender has its sender
\* as its recipient (stated for the transactions with an amount above 0,
\* those the self-transfer rule is the first to apply to).
C10_NoSelfTransfer ==
    \A i \in 1..Len(CommittedTransactions) :
        LET tx == CommittedTransactions[i]
        IN  (tx.sender \notin Sentinels /\ tx.amount > 0)
            => tx.sender # tx.recipient

\* C11: every issuance transaction (certified by process_issuance through
\* BlockchainAdapter.issue_credits) has an amount above 0 and a recipient
\* that is not frozen at the moment the credits are issued.
C11_IssuanceChecked ==
    [][\A t \in Threads :
          ( /\ th[t].route = "process_issuance"
            /\ th[t].pc = "add_transaction"
            /\ th'[t].pc = "mine_block" )
          => /\ th[t].amount > 0
             /\ ~users[th[t].recipient].frozen]_vars

\* C12: every pooled or committed transaction whose sender is a sentinel
\* comes from a certification or from the bootstrap issuance; no transfer
\* request has a sentinel as its sender.
C12_SentinelOnlyByCertification ==
    \A i \in 1..Len(CommittedTransactions \o current_transactions) :
        LET tx == (CommittedTransactions \o current_transactions)[i]
        IN  tx.sender \in Sentinels
            => tx.details.text \in {"Certified Issuance ID",
                                    "Initial credit allocation"}

\* C13: a request whose amount exceeds the quota set for the acting account
\* (the buying factory of /buy-credit, the producer of /issue-credit) is
\* rejected as exceeding the quota and adds nothing to the pool or the
\* chain; an account without a quota is never rejected for its quota.
C13_QuotaEnforced ==
    [][/\ \A t \in Threads :
             (BuyAccepted(t) \/ BuyRejected(t))
             => IF th'[t].user \in DOMAIN quotas
                   /\ th'[t].amount > quotas[th'[t].user]
                THEN /\ th'[t].pc = "respond"
                     /\ th'[t].flash = "Purchase failed. Exceeds quota."
                     /\ chain' = chain
                     /\ current_transactions' = current_transactions
                ELSE th'[t].flash # "Purchase failed. Exceeds quota."
       /\ issuance_counter' # issuance_counter
             => LET issuance == pending_issuances'[issuance_counter']
                IN  ~( /\ issuance.producer_name \in DOMAIN quotas
                       /\ issuance.amount > quotas[issuance.producer_name] )]_vars

\* C14: a rejected request never enters the pool, and once every request
\* has run to its end each transaction that entered the pool is in a
\* committed block and no longer in the pool.
C14_Lifecycle ==
    /\ \A t \in Threads :
          th[t].pc = "respond" => th[t].transaction_id = 0
    /\ (\A t \in Threads : th[t].pc = "idle")
          => \A id \in 1..tx_counter :
                /\ Committed(id)
                /\ Occurrences(current_transactions, id) = 0

\* C18: the integer add_transaction returns is the index of the block the
\* transaction is committed in: when the call of mine_block that follows it
\* has returned, the block with that index contains the transaction.
C18_ReturnedIndexIsBlock ==
    \A t \in Threads :
        th[t].pc = "return"
        => \E i \in 1..Len(chain) :
              /\ chain[i].index = th[t].block_index
              /\ Occurrences(chain[i].transactions, th[t].transaction_id) > 0

\* The transactions of a sequence that name an account as sender or as
\* recipient, in the order of the sequence.
Matching(txs, name) ==
    SelectSeq(txs, LAMBDA tx : tx.recipient = name \/ tx.sender = name)

\* C15: for every account name and every limit >= 0 (0 included), the list
\* get_user_transactions returns has at most limit entries.
C15_HistoryBounded ==
    \A name \in AccountNames, limit \in HistoryLimits :
        Len(GetUserTransactions(name, limit)) <= limit

\* C16: for a limit of 1 or more, get_user_transactions lists the
\* transactions that name the account most recent first: the committed
\* ones from the last block to the first and within a block from the last
\* to the first, after them the matching ones of the pending pool, cut
\* off after limit entries.
C16_HistoryOrder ==
    \A name \in AccountNames, limit \in HistoryLimits \ {0} :
        LET result == GetUserTransactions(name, limit)
            committed == Reverse(Matching(CommittedTransactions, name))
            pooled == Matching(current_transactions, name)
            total == Len(committed) + Len(pooled)
            n == IF limit < total THEN limit ELSE total
        IN  /\ Len(result) = n
            /\ \A i \in 1..n :
                  IF i <= Len(committed)
                  THEN result[i].transaction_hash
                          = committed[i].transaction_hash
                  ELSE \E j \in 1..Len(pooled) :
                          result[i].transaction_hash
                              = pooled[j].transaction_hash

Registers(t) ==
    /\ th[t].pc = "idle"
    /\ th'[t].route = "register"

C21_RoundTrip ==
    [][boots' # boots =>
          /\ users' = users
          /\ quotas' = quotas
          /\ chain' = chain
          /\ current_transactions' = current_transactions
          /\ \A a \in AccountNames : GetBalance(a)' = GetBalance(a)]_vars

\* username_to_address and address_to_username are inverse maps of each
\* other, and no two keys of address_to_username are equal up to case.
InverseMaps ==
    /\ \A u \in DOMAIN username_to_address :
          /\ username_to_address[u] \in DOMAIN address_to_username
          /\ address_to_username[username_to_address[u]] = u
    /\ \A a \in DOMAIN address_to_username :
          /\ address_to_username[a] \in DOMAIN username_to_address
          /\ username_to_address[address_to_username[a]] = a
    /\ \A a, b \in DOMAIN address_to_username :
          Lower(a) = Lower(b) => a = b

\* The last call of the mapper was a register_account that returned True.
Registered ==
    /\ mapper_call.op = "register_account"
    /\ mapper_call.result

\* C22 as claimed: after any calls of register_account and remove_mapping
\* the two maps are inverse to each other (no username with two addresses,
\* no address, up to case, with two usernames), and after a successful
\* register_account(u, a) get_address_by_username(u) is a and
\* get_username_by_address(a) is u.
C22_InverseAndExact ==
    /\ InverseMaps
    /\ Registered =>
          /\ GetAddressByUsername(mapper_call.username) = mapper_call.address
          /\ GetUsernameByAddress(mapper_call.address) = mapper_call.username

\* C22, amended: the maps are inverse to each other, and after a successful
\* register_account(u, a) get_address_by_username(u) is a up to the case of
\* its letters and get_username_by_address(a) is u.
C22_InverseUpToCase ==
    /\ InverseMaps
    /\ Registered =>
          /\ GetAddressByUsername(mapper_call.username) # None
          /\ Lower(GetAddressByUsername(mapper_call.username))
                = Lower(mapper_call.address)
          /\ GetUsernameByAddress(mapper_call.address) = mapper_call.username

\* A register_account of a mapped username under another spelling of its
\* address has succeeded, with a second pair in the maps.
C22_Witness ==
    /\ Registered
    /\ GetAddressByUsername(mapper_call.username) # mapper_call.address
    /\ Cardinality(DOMAIN username_to_address) = 2

\* The transient keywords of C23.
TransientKeywords ==
    {"timeout", "connection", "network", "temporary", "busy", "rate limit",
     "throttle", "congestion"}

\* The permanent keywords of C23.
PermanentKeywords ==
    {"invalid", "unauthorized", "forbidden", "not found",
     "insufficient balance", "revert", "validation"}

\* The message contains the keyword, in whatever case it is written.
Contains(message, keyword) ==
    \E i \in 1..Len(message) :
        \/ message[i].text = keyword
        \/ message[i].text = "reverted" /\ keyword = "revert"

\* C23: _is_retryable_error classifies an error as retryable exactly when
\* its message contains a transient keyword and contains no permanent
\* keyword: permanent keywords take precedence, and an error that matches
\* neither list is not retryable.
C23_RetryableExactly ==
    classified.called =>
        ( classified.result <=>
            /\ \E k \in TransientKeywords : Contains(classified.error, k)
            /\ ~\E k \in PermanentKeywords : Contains(classified.error, k) )

\* An error whose message has a transient and a permanent keyword, one of
\* them with capital letters, has been classified.
C23_Witness ==
    /\ classified.called
    /\ \E k \in TransientKeywords : Contains(classified.error, k)
    /\ \E k \in PermanentKeywords : Contains(classified.error, k)
    /\ \E i \in 1..Len(classified.error) : classified.error[i].capitals
    /\ ~classified.result

\* C24: get_risk_analysis returns a result that contains risk_score and
\* assessment, whether the AI model is available, unavailable or fails
\* during the call. (It returns in every case; no ledger operation reads
\* the service or its result.)
C24_ResultHasScoreAndAssessment ==
    analysis.called =>
        {"risk_score", "assessment"} \subseteq DOMAIN analysis.result

\* C25: block indices are 1-based and strictly increasing with no gaps: in
\* every reachable chain, also under interleaved mine_block calls, the k-th
\* block has index k.
C25_IndicesWithoutGaps ==
    \A k \in 1..Len(chain) : chain[k].index = k

\* C26: blocks are immutable once appended and their hash stays valid: for
\* every block of every reachable chain the stored hash is the block hash
\* of the block's index, timestamp, transactions, proof and previous_hash
\* as they are, also for a chain or a pool given to the constructor.
C26_StoredHashValid ==
    \A i \in 1..Len(chain) : chain[i].hash = GenerateBlockHash(chain[i])

\* The invocations of operation_func so far are at most max_retries + 1; an
\* invocation is followed by another one only when it raised an error that
\* _is_retryable_error classifies as retryable; the result returned is that
\* of the one invocation that succeeded, the last one; and the error raised
\* is a BlockchainError made from the error of the last invocation, none
\* having succeeded.
RetryBounded ==
    LET n == Len(retry.attempts)
    IN  /\ n <= retry.max_retries + 1
        /\ \A i \in 1..(n - 1) :
              /\ ~retry.attempts[i].ok
              /\ IsRetryableError(retry.attempts[i].error)
        /\ retry.pc = "try" => n <= retry.max_retries
        /\ retry.pc = "returned" =>
              /\ n >= 1
              /\ retry.attempts[n].ok
              /\ retry.result = retry.attempts[n].value
        /\ retry.pc = "raised" =>
              /\ n >= 1
              /\ ~retry.attempts[n].ok
              /\ retry.raised.error_type # None
              /\ retry.raised.original_error = retry.attempts[n].error

\* C27: execute_with_retry terminates after invoking the operation at most
\* max_retries + 1 times: it returns the result of the first successful
\* attempt, makes no further attempt after an error that
\* _is_retryable_error classifies as non-retryable, and when no attempt
\* succeeds it raises a BlockchainError built from the last error.
C27_RetryTerminates ==
    /\ []RetryBounded
    /\ <>(retry.pc \in {"returned", "raised"})

\* All max_retries + 1 invocations were made, with two retries, and the
\* last one failed with a retryable error: the BlockchainError is raised.
C27_Witness ==
    /\ retry.pc = "raised"
    /\ retry.max_retries = 2
    /\ Len(retry.attempts) = retry.max_retries + 1
    /\ IsRetryableError(retry.last_error)
    /\ retry.raised.error_type = "network_error"

\* The account names that are no sentinel: the registered ones and those
\* the committed transactions name.
NonSentinelNames ==
    (DOMAIN users
     \cup {CommittedTransactions[i].sender :
              i \in 1..Len(CommittedTransactions)}
     \cup {CommittedTransactions[i].recipient :
              i \in 1..Len(CommittedTransactions)})
    \ Sentinels

\* The sum of get_balance over a set of names.
RECURSIVE SumOfBalances(_)
SumOfBalances(names) ==
    IF names = {} THEN 0
    ELSE LET name == CHOOSE n \in names : TRUE
         IN  GetBalance(name) + SumOfBalances(names \ {name})

\* The total amount of the transactions whose sender is a sentinel.
RECURSIVE Issued(_)
Issued(txs) ==
    IF txs = <<>> THEN 0
    ELSE (IF Head(txs).sender \in Sentinels THEN Head(txs).amount ELSE 0)
         + Issued(Tail(txs))

\* C28: credits are conserved by transfers: in every reachable state the sum
\* of get_balance over all account names that are no sentinel is the total
\* amount of the committed transactions whose sender is a sentinel, so that
\* committing a transfer between two accounts leaves the sum unchanged.
C28_CreditsConserved ==
    SumOfBalances(NonSentinelNames) = Issued(CommittedTransactions)

\* C29: in simulated mode every call of BlockchainAdapter.add_transaction
\* or issue_credits commits its own transaction before it returns: when
\* mine_block returns to it, the chain is one block longer, that block
\* holds exactly the transaction the call added, and the pending pool is
\* empty, so that the transaction counts in get_balance at once.
C29_CommitsOwnTransaction ==
    [][\A t \in Threads :
          (th[t].pc = "append_block" /\ th'[t].pc = "return")
          => /\ chain' = Append(chain, th[t].block)
             /\ Len(th[t].block.transactions) = 1
             /\ th[t].block.transactions[1].transaction_id
                   = th[t].transaction_id
             /\ current_transactions' = <<>>
             /\ Occurrences(TransactionsOf(chain'), th[t].transaction_id)
                   = 1]_vars

\* The ids of the committed issuance transactions for an issuance id.
IssuanceTransactions(issuance_id) ==
    {CommittedTransactions[i].transaction_id :
        i \in {j \in 1..Len(CommittedTransactions) :
                  /\ CommittedTransactions[j].sender = SystemSender
                  /\ CommittedTransactions[j].details.issuance = issuance_id}}

\* C30: each issuance request is certified at most once: for every issuance
\* id, whatever process_issuance actions are taken, at most one issuance
\* transaction for that id is ever committed; and the request is no longer
\* pending when its certification has succeeded.
C30_CertifiedAtMostOnce ==
    [][/\ \A id \in 1..issuance_counter :
             Cardinality(IssuanceTransactions(id)') <= 1
       /\ \A t \in Threads :
             ( /\ th[t].pc = "return"
               /\ th[t].route = "process_issuance"
               /\ th'[t].pc = "idle"
               /\ boots' = boots )
             => th[t].issuance_id \notin DOMAIN pending_issuances']_vars

====
